---- MODULE Spec2Model ----
(***************************************************************************)
(* Model of optimum/tir/lang.py: the TirTarget enumeration, the iree_cl    *)
(* compiler flag and the TirConfig flag-set builder.                       *)
(*                                                                         *)
(* Python values are records [type, text, items]: text is str(value) for   *)
(* a scalar, items the elements of a tuple.  A flag object is a record     *)
(* [obj, position, id, value] where obj is the object's identity.          *)
(***************************************************************************)
EXTENDS Integers, Sequences, FiniteSets, TLC

VARIABLES flags, mlir_output_path, fs, history, last

vars == <<flags, mlir_output_path, fs, history, last>>

(***************************************************************************)
(* Bounds of the model.                                                    *)
(***************************************************************************)
\* number of builder calls made on one configuration
MaxCalls == 2
\* length of the raw flag list handed to parse_flags
MaxRawLen == 3

(***************************************************************************)
(* Python values.                                                          *)
(***************************************************************************)
None == [type |-> "NoneType", text |-> "None", items |-> <<>>]

PyStr(s) == [type |-> "str", text |-> s, items |-> <<>>]

PyInt(n) == [type |-> "int", text |-> ToString(n), items |-> <<>>]

PyBool(b) == [type |-> "bool", text |-> IF b THEN "True" ELSE "False", items |-> <<>>]

PyTuple(elems) == [type |-> "tuple", text |-> "", items |-> elems]

\* bool(v): the truth value Python gives an object in an `if`
Truthy(v) ==
    CASE v.type = "NoneType" -> FALSE
      [] v.type = "int"      -> v.text # "0"
      [] v.type = "bool"     -> v.text = "True"
      [] v.type = "str"      -> v.text # ""
      [] OTHER               -> v.items # <<>>

\* repr(v) of a scalar: a string is quoted, anything else prints as str(v)
ReprScalar(v) == IF v.type = "str" THEN "'" \o v.text \o "'" ELSE v.text

RECURSIVE JoinRepr(_)
JoinRepr(elems) ==
    IF elems = <<>> THEN ""
    ELSE IF Len(elems) = 1 THEN ReprScalar(elems[1])
    ELSE ReprScalar(elems[1]) \o ", " \o JoinRepr(Tail(elems))

\* str(v): a tuple prints as its parenthesised element reprs, (x,) for one
Str(v) ==
    IF v.type = "tuple"
    THEN IF Len(v.items) = 1
         THEN "(" \o ReprScalar(v.items[1]) \o ",)"
         ELSE "(" \o JoinRepr(v.items) \o ")"
    ELSE v.text

\* len(v) of a tuple entry
PyLen(v) == Len(v.items)

(***************************************************************************)
(* TirTarget                                                               *)
(***************************************************************************)
TirTarget == {"INTERPRETED_CPU", "COMPILED_CPU", "COMPILED_GPU", "COMPILED_CUDA", "COMPILED_ROCM"}

Returned(v) == [raised |-> "", value |-> v]

Raised(exc, about) == [raised |-> exc, value |-> about]

to_tf_compiler_value_swapped(self) ==
    IF self = "INTERPRETED_CPU" THEN Returned("iree_llvmcpu")
    ELSE IF self = "COMPILED_CPU" THEN Returned("iree_vmvx")
    ELSE IF self = "COMPILED_GPU" THEN Returned("iree_vulkan")
    ELSE Raised("ValueError", self)

to_tf_compiler_value(self) ==
    IF self = "INTERPRETED_CPU" THEN Returned("iree_vmvx")
    ELSE IF self = "COMPILED_CPU" THEN Returned("iree_llvmcpu")
    ELSE IF self = "COMPILED_GPU" THEN Returned("iree_vulkan")
    ELSE Raised("ValueError", self)

(***************************************************************************)
(* iree_cl                                                                 *)
(***************************************************************************)
\* iree_cl(position, id, value=None), allocated as object obj
iree_cl(obj, position, id, value) ==
    [obj |-> obj, position |-> position, id |-> id, value |-> value]

\* parts is (int, str) or (int, str, Any); int() of the enumerate index is
\* the index, str() of the second part is Str
from_sequence(obj, parts) ==
    IF Len(parts) = 2
    THEN Returned(iree_cl(obj, parts[1], Str(parts[2]), None))
    ELSE IF Len(parts) = 3
    THEN Returned(iree_cl(obj, parts[1], Str(parts[2]), parts[3]))
    ELSE Raised("ValueError", Len(parts))

\* __hash__ hashes the identifier alone
Hash(flag) == flag.id

\* the class defines no __eq__: two flags are equal when they are one object
Eq(a, b) == a.obj = b.obj

\* __str__
str(flag) ==
    IF Truthy(flag.value)
    THEN flag.id \o "=" \o Str(flag.value)
    ELSE flag.id

(***************************************************************************)
(* Python's set of flag objects                                            *)
(***************************************************************************)
\* set.add: the element is inserted unless an equal element of the same
\* hash is already present
SetAdd(s, flag) ==
    IF \E g \in s : Hash(g) = Hash(flag) /\ Eq(g, flag) THEN s ELSE s \cup {flag}

\* the identity of the next object allocated for a configuration
NewObj(s) == Cardinality(s) + 1


\* sorted(s, key=lambda f: f.position): a set iterates in an arbitrary order
\* and the sort is stable, so flags of one position come out in any order
RECURSIVE sorted_by_allocation(_)
sorted_by_allocation(s) ==
    IF s = {} THEN {<<>>}
    ELSE LET f == CHOOSE g \in s : \A h \in s : g.obj <= h.obj
         IN {<<f>> \o t : t \in sorted_by_allocation(s \ {f})}

RECURSIVE sorted(_)
sorted(s) ==
    IF s = {} THEN {<<>>}
    ELSE LET m == CHOOSE p \in {g.position : g \in s} : \A g \in s : p <= g.position
         IN UNION {{<<f>> \o t : t \in sorted(s \ {f})} : f \in {g \in s : g.position = m}}

(***************************************************************************)
(* TirConfig: pure parts                                                   *)
(***************************************************************************)
\* enumerate(flags): the pairs (index, entry), indexes from 0
enumerate(raw) == [i \in 1..Len(raw) |-> <<i - 1, raw[i]>>]

\* (f[0], ) + f[1:] of an enumerate pair f
FlagParts(f) == <<f[1]>> \o SubSeq(f, 2, Len(f))

RECURSIVE SetOf(_)
SetOf(made) ==
    IF Len(made) = 0 THEN {}
    ELSE SetAdd(SetOf(SubSeq(made, 1, Len(made) - 1)), made[Len(made)].value)

\* set(map(lambda f: iree_cl.from_sequence((f[0], ) + f[1:]), enumerate(flags)))
parse_flags(raw) ==
    LET made == [i \in 1..Len(raw) |-> from_sequence(i, FlagParts(enumerate(raw)[i]))]
        bad  == {i \in 1..Len(raw) : made[i].raised # ""}
    IN IF bad # {}
       THEN made[CHOOSE i \in bad : \A j \in bad : i <= j]
       ELSE Returned(SetOf(made))

\* target_sm.replace('.', '') on a string given as its characters
RECURSIVE ReplaceDots(_)
ReplaceDots(chars) ==
    IF chars = <<>> THEN ""
    ELSE (IF chars[1] = "." THEN "" ELSE chars[1]) \o ReplaceDots(Tail(chars))

DebugPosition == -1000

TargetPosition == -1

DefaultIndex == -1

ElideId == "--mlir-elide-elementsattrs-if-larger"

PrintIrId == "--mlir-print-ir-before-all"

CpuId == "--iree-llvm-target-cpu-features"

GpuId == "--iree-hal-cuda-llvm-target-arch"

debug_flags_at_target_position(s) ==
    LET one == SetAdd(s, iree_cl(NewObj(s), TargetPosition, ElideId, PyInt(1)))
    IN SetAdd(one, iree_cl(NewObj(one), TargetPosition, PrintIrId, None))

\* the two self._flags.add calls of with_debug_flags
debug_flags(s) ==
    LET one == SetAdd(s, iree_cl(NewObj(s), DebugPosition, ElideId, PyInt(1)))
    IN SetAdd(one, iree_cl(NewObj(one), DebugPosition, PrintIrId, None))

\* the flag with_cpu_target adds; target None stands for "host"
cpu_flag(s, target) ==
    iree_cl(NewObj(s), TargetPosition, CpuId, IF target = None THEN PyStr("host") ELSE target)

\* the flag with_gpu_target adds
gpu_flag(s, target_sm) ==
    iree_cl(NewObj(s), TargetPosition, GpuId, PyStr("sm_" \o ReplaceDots(target_sm)))


(***************************************************************************)
(* Inputs                                                                  *)
(***************************************************************************)
BoundedSeq(S, n) == UNION {[1..k -> S] : k \in 0..n}

\* flag lists given to the constructor (List[str], as annotated)
CtorInputs == {<<>>, <<PyStr("--a")>>, <<PyStr("--a"), PyStr("--b=2")>>}

\* entries of a raw flag list: a string, and tuples of 1, 2, 3 and 4 elements
RawEntries ==
    { PyStr("--a"),
      PyTuple(<<PyStr("--b")>>),
      PyTuple(<<PyInt(7), PyStr("--c")>>),
      PyTuple(<<PyInt(7), PyStr("--d"), PyInt(3)>>),
      PyTuple(<<PyInt(7), PyStr("--e"), PyInt(3), PyInt(4)>>) }

RawInputs == BoundedSeq(RawEntries, MaxRawLen)

CpuTargets == {None, PyStr("skylake")}

GpuTargets == {<<"8", ".", "0">>}

ParamValues == {None, PyInt(0), PyBool(FALSE), PyStr(""), PyStr("v")}

\* (name, value, index) of the register_additional_parameters calls: every
\* value at the default index, and indexes below, at and above the positions
\* of the other flags
ParamCalls ==
    {<<"--x", value, DefaultIndex>> : value \in ParamValues}
        \cup {<<"--x", None, -2000>>, <<"--y", None, DebugPosition>>, <<"--x", PyStr("v"), 1>>}

OutputPaths == {PyStr(""), PyStr("out.mlir")}

IrTexts == {"module {}"}

NoFile == "<no file>"

(***************************************************************************)
(* State                                                                   *)
(***************************************************************************)
\* the _mlir_output_path slot: __init__ leaves it unbound
Unbound == [bound |-> FALSE, value |-> None]

Bound(path) == [bound |-> TRUE, value |-> path]

Call(op, objs) == [op |-> op, objs |-> objs]

Outcome(op, arg, result) ==
    [op |-> op, arg |-> arg, raised |-> result.raised, value |-> result.value]

Constructed == history # <<>>

CanCall == Constructed /\ Len(history) <= MaxCalls

Objs(s) == {f.obj : f \in s}

NoConfig ==
    /\ flags = {}
    /\ mlir_output_path = Unbound
    /\ fs = [p \in {q.text : q \in OutputPaths} |-> NoFile]
    /\ history = <<>>
    /\ last = Outcome("", <<>>, Returned(<<>>))

\* the flag set TirConfig.__init__(flags) builds
InitFlags(raw) == IF Len(raw) > 0 THEN parse_flags(raw).value ELSE {}

\* a configuration freshly constructed from a list of strings
Init ==
    \E raw \in CtorInputs :
        /\ flags = InitFlags(raw)
        /\ mlir_output_path = Unbound
        /\ fs = [p \in {q.text : q \in OutputPaths} |-> NoFile]
        /\ history = <<Call("__init__", Objs(flags))>>
        /\ last = Outcome("__init__", [i \in 1..Len(raw) |-> Str(raw[i])], Returned(<<"self">>))

\* no configuration yet: the static method and the enumeration's function
InitPure == NoConfig

(***************************************************************************)
(* Operations                                                              *)
(***************************************************************************)
Added(op, s) ==
    /\ flags' = s
    /\ history' = Append(history, Call(op, Objs(s) \ Objs(flags)))
    /\ last' = Outcome(op, <<>>, Returned(<<"self">>))
    /\ UNCHANGED <<mlir_output_path, fs>>

with_debug_flags ==
    /\ CanCall
    /\ Added("with_debug_flags", debug_flags(flags))

with_cpu_target ==
    /\ CanCall
    /\ \E target \in CpuTargets :
           Added("with_cpu_target", SetAdd(flags, cpu_flag(flags, target)))

with_gpu_target ==
    /\ CanCall
    /\ \E target_sm \in GpuTargets :
           Added("with_gpu_target", SetAdd(flags, gpu_flag(flags, target_sm)))

register_additional_parameters ==
    /\ CanCall
    /\ \E call \in ParamCalls :
           LET name == call[1]
               value == call[2]
               index == call[3]
           IN Added("register_additional_parameters",
                    SetAdd(flags, iree_cl(NewObj(flags), index, name, value)))

with_mlir_ir_output ==
    /\ CanCall
    /\ \E path \in OutputPaths :
           /\ mlir_output_path' = Bound(path)
           /\ history' = Append(history, Call("with_mlir_ir_output", {}))
           /\ last' = Outcome("with_mlir_ir_output", <<Str(path)>>, Returned(<<"self">>))
           /\ UNCHANGED <<flags, fs>>

\* reading an unbound slot raises AttributeError
save_ir ==
    /\ Constructed
    /\ \E mlir_module \in IrTexts :
           IF ~mlir_output_path.bound
           THEN /\ last' = Outcome("save_ir", <<mlir_module>>,
                                   Raised("AttributeError", <<"_mlir_output_path">>))
                /\ UNCHANGED <<flags, mlir_output_path, fs, history>>
           ELSE /\ fs' = IF Truthy(mlir_output_path.value)
                         THEN [fs EXCEPT ![mlir_output_path.value.text] = mlir_module]
                         ELSE fs
                /\ last' = Outcome("save_ir", <<mlir_module>>, Returned(<<"None">>))
                /\ UNCHANGED <<flags, mlir_output_path, history>>

RenderAll(order) == [i \in 1..Len(order) |-> str(order[i])]

get_compiler_args ==
    /\ Constructed
    /\ \E order \in sorted(flags) :
           /\ last' = Outcome("get_compiler_args", <<>>, Returned(RenderAll(order)))
           /\ UNCHANGED <<flags, mlir_output_path, fs, history>>

\* the static and enumeration functions are called one at a time: a call is
\* made when no result is held, and Discard drops the result held
Idle == last.op = ""

CallParseFlags ==
    /\ Idle
    /\ \E raw \in RawInputs :
           last' = Outcome("parse_flags", raw, parse_flags(raw))
    /\ UNCHANGED <<flags, mlir_output_path, fs, history>>

CallToTfCompilerValue ==
    /\ Idle
    /\ \E target \in TirTarget :
           last' = Outcome("to_tf_compiler_value", target, to_tf_compiler_value(target))
    /\ UNCHANGED <<flags, mlir_output_path, fs, history>>

Next ==
    \/ register_additional_parameters
    \/ with_cpu_target
    \/ with_gpu_target
    \/ with_debug_flags
    \/ with_mlir_ir_output
    \/ save_ir
    \/ get_compiler_args

Spec == Init /\ [][Next]_vars

Discard ==
    /\ ~Idle
    /\ last' = Outcome("", <<>>, Returned(<<>>))
    /\ UNCHANGED <<flags, mlir_output_path, fs, history>>

NextPure ==
    \/ CallParseFlags
    \/ CallToTfCompilerValue
    \/ Discard

SpecPure == InitPure /\ [][NextPure]_vars


(***************************************************************************)
(* Vocabulary of the properties                                            *)
(***************************************************************************)
Rendered == last.op = "get_compiler_args"

CallsOf(op) == {k \in DOMAIN history : history[k].op = op}

ObjsOf(op) == UNION {history[k].objs : k \in CallsOf(op)}

DebugTexts == {ElideId \o "=1", PrintIrId}

\* every flag that with_debug_flags did not add sits above the debug position
OthersAboveDebug ==
    \A f \in flags : f.obj \notin ObjsOf("with_debug_flags") => f.position > DebugPosition

\* the flag written last among those of f's identifier
Latest(f) ==
    LET same == {g \in flags : g.id = f.id}
    IN CHOOSE g \in same : \A h \in same : h.obj <= g.obj

(***************************************************************************)
(* C1  The flag set holds at most one flag per identifier, and             *)
(* get_compiler_args renders one argument per identifier.                  *)
(***************************************************************************)
C1_OneFlagPerIdentifier ==
    /\ \A f, g \in flags : f.id = g.id => f = g
    /\ Rendered => Len(last.value) = Cardinality({f.id : f \in flags})

(***************************************************************************)
(* C2  When one identifier is written twice, what is rendered for that     *)
(* identifier carries the value of the last write: every rendered          *)
(* argument is the text of the flag written last for its identifier.       *)
(***************************************************************************)
C2_LastWriteWins ==
    Rendered =>
        \A i \in DOMAIN last.value : last.value[i] \in {str(Latest(f)) : f \in flags}

(***************************************************************************)
(* C3  Once with_debug_flags has been called, the first two rendered       *)
(* arguments are the two debug flags, whatever else was added and at       *)
(* whatever index.                                                         *)
(***************************************************************************)
C3_DebugFlagsFirst ==
    (Rendered /\ CallsOf("with_debug_flags") # {}) =>
        /\ Len(last.value) >= 2
        /\ {last.value[1], last.value[2]} = DebugTexts

(***************************************************************************)
(* C3 as amended: once with_debug_flags has been called and every other    *)
(* flag has a position above -1000, the first two rendered arguments are   *)
(* renderings of debug flags; after exactly one with_debug_flags call      *)
(* they are the two distinct debug flags, in either order.                 *)
(***************************************************************************)
C3_DebugFlagsFirstAmended ==
    (Rendered /\ CallsOf("with_debug_flags") # {} /\ OthersAboveDebug) =>
        /\ Len(last.value) >= 2
        /\ last.value[1] \in DebugTexts
        /\ last.value[2] \in DebugTexts
        /\ Cardinality(CallsOf("with_debug_flags")) = 1 => last.value[1] # last.value[2]

\* debug flags added between constructor flags and a later flag, then rendered
C3_Witness ==
    /\ Rendered
    /\ OthersAboveDebug
    /\ Len(history) = 3
    /\ history[1].objs # {}
    /\ history[2].op = "with_debug_flags"
    /\ history[3].objs # {}
    /\ history[3].op # "with_debug_flags"

(***************************************************************************)
(* C4  get_compiler_args leaves the flag set unchanged and returns one     *)
(* string per flag of the set, a flag of strictly smaller position         *)
(* earlier: the flags of each position fill, in some order, the places     *)
(* after those of all smaller positions.  The empty set renders as the     *)
(* empty list.                                                             *)
(***************************************************************************)
At(p) == {f \in flags : f.position = p}

\* the places of the rendered list that the flags of position p take
Places(p) ==
    LET before == Cardinality({f \in flags : f.position < p})
    IN (before + 1)..(before + Cardinality(At(p)))

RenderedAll ==
    /\ Len(last.value) = Cardinality(flags)
    /\ \A p \in {f.position : f \in flags} :
           \A t \in {str(f) : f \in At(p)} \cup {last.value[i] : i \in Places(p)} :
               Cardinality({i \in Places(p) : last.value[i] = t})
                   = Cardinality({f \in At(p) : str(f) = t})
    /\ flags = {} => last.value = <<>>

C4_RenderOrdered ==
    [][last'.op = "get_compiler_args" => (flags' = flags /\ RenderedAll')]_vars

\* three or more flags rendered, one added later that sorts earlier
C4_Witness ==
    /\ Rendered
    /\ Cardinality(flags) >= 3
    /\ RenderedAll
    /\ \E f, g \in flags : f.obj > g.obj /\ f.position < g.position

(***************************************************************************)
(* C5  A flag registered at the default index is rendered after every      *)
(* flag that was in the configuration before it.                           *)
(***************************************************************************)
C5_DefaultIndexAppends ==
    Rendered =>
        \A f, g \in flags :
            ( /\ f.obj \in ObjsOf("register_additional_parameters")
              /\ f.position = DefaultIndex
              /\ g.obj < f.obj
              /\ str(g) # str(f) ) =>
                \A i, j \in DOMAIN last.value :
                    (last.value[i] = str(f) /\ last.value[j] = str(g)) => j < i

(***************************************************************************)
(* C6  save_ir on a configuration whose output path was never set returns  *)
(* normally, writes nothing and leaves the configuration unchanged.        *)
(***************************************************************************)
C6_SaveIrNoOp ==
    (last.op = "save_ir" /\ CallsOf("with_mlir_ir_output") = {}) =>
        /\ last.raised = ""
        /\ \A p \in DOMAIN fs : fs[p] = NoFile
        /\ mlir_output_path = Unbound

(***************************************************************************)
(* C7  A flag renders as its identifier alone exactly when its value is    *)
(* None, and as identifier=value for every other value.                    *)
(***************************************************************************)
IdOrIdValue(f) == IF f.value = None THEN f.id ELSE f.id \o "=" \o Str(f.value)

C7_ValueRendered ==
    Rendered =>
        {last.value[i] : i \in DOMAIN last.value} = {IdOrIdValue(f) : f \in flags}

(***************************************************************************)
(* C8  parse_flags of a list of 2- and 3-element tuples yields one flag    *)
(* per entry, its position the entry's index, its identifier and value     *)
(* the entry's.                                                            *)
(***************************************************************************)
IsTuple(entry, arities) == entry.type = "tuple" /\ PyLen(entry) \in arities

C8_ParsePreserves ==
    ( /\ last.op = "parse_flags"
      /\ \A i \in DOMAIN last.arg : IsTuple(last.arg[i], {2, 3}) ) =>
        /\ last.raised = ""
        /\ Cardinality(last.value) = Len(last.arg)
        /\ \A i \in DOMAIN last.arg :
               \E f \in last.value :
                   /\ f.position = i - 1
                   /\ f.id = last.arg[i].items[2].text
                   /\ f.value = IF PyLen(last.arg[i]) = 3 THEN last.arg[i].items[3] ELSE None

(***************************************************************************)
(* C9  parse_flags of a list holding a 1- or 4-element tuple raises a      *)
(* ValueError naming that arity; lists of 2- and 3-element tuples never    *)
(* raise.                                                                  *)
(***************************************************************************)
C9_ArityError ==
    last.op = "parse_flags" =>
        /\ (\E i \in DOMAIN last.arg : IsTuple(last.arg[i], {1, 4})) =>
               /\ last.raised = "ValueError"
               /\ \E i \in DOMAIN last.arg :
                      IsTuple(last.arg[i], {1, 4}) /\ last.value = PyLen(last.arg[i])
        /\ (\A i \in DOMAIN last.arg : IsTuple(last.arg[i], {2, 3})) => last.raised = ""

(***************************************************************************)
(* C10  to_tf_compiler_value returns iree_vmvx, iree_llvmcpu and           *)
(* iree_vulkan for INTERPRETED_CPU, COMPILED_CPU and COMPILED_GPU, and     *)
(* raises a ValueError for COMPILED_CUDA and COMPILED_ROCM.                *)
(***************************************************************************)
C10_TfCompilerValue ==
    last.op = "to_tf_compiler_value" =>
        CASE last.arg = "INTERPRETED_CPU" -> last.raised = "" /\ last.value = "iree_vmvx"
          [] last.arg = "COMPILED_CPU"    -> last.raised = "" /\ last.value = "iree_llvmcpu"
          [] last.arg = "COMPILED_GPU"    -> last.raised = "" /\ last.value = "iree_vulkan"
          [] last.arg \in {"COMPILED_CUDA", "COMPILED_ROCM"} -> last.raised = "ValueError"
          [] OTHER -> FALSE

\* the CUDA target asked for its tf compiler value
C10_Witness ==
    /\ last.op = "to_tf_compiler_value"
    /\ last.arg = "COMPILED_CUDA"
    /\ last.raised = "ValueError"

====
